---- MODULE Spec2Model ----
(***************************************************************************)
(* Model of kamakaya/WordGenerator:                                        *)
(*   src/preprocess_data.py  remove_duplicate_chars, filter_words,         *)
(*                           pickle_word_vecs                              *)
(*   src/modules.py          ACTS, CharDecoderHeadRNN.__init__/forward,    *)
(*                           CharDecoderRNN.forward, the greedy generation *)
(*                           loop of lines 129-149                         *)
(*                                                                         *)
(* Characters are one-character strings, Python strings are sequences of   *)
(* characters, dicts are functions.  Three specifications share the        *)
(* variables: SpecPre (preprocessing), SpecFwd (construction and forward   *)
(* calls of CharDecoderHeadRNN) and SpecGen (one generation episode).      *)
(***************************************************************************)
EXTENDS Integers, Sequences, FiniteSets, TLC

VARIABLES
    pre_pc,            \* preprocess_data.py: "start", "filtered", "pickled", "error"
    letters,           \* preprocess_data.py:55/71  the letters argument
    word_vectors_dict, \* preprocess_data.py:55/71  the word -> vector dictionary
    filtered,          \* preprocess_data.py:60-65, 93  what filter_words returned
    words_file,        \* preprocess_data.py:104-115  (word2idx, idx2word, word_vecs)
    chars_file,        \* preprocess_data.py:119-123  (char2idx, idx2char)
    mod_pc,            \* modules.py:56-85  "new", "built", "failed"
    module,            \* modules.py:44-94  the CharDecoderHeadRNN object
    ctor_args,         \* modules.py:56-63  the arguments of the constructor call
    fwd,               \* modules.py:87-94  the last forward call, what the decoder got
    gen_pc,            \* modules.py:138-148  "INIT", "STEPPING", "DONE", "ERROR"
    dataset,           \* modules.py:134-148  dataset.idx2char (char2idx is its inverse)
    hid,               \* modules.py:131-143  the loop's hid
    inp,               \* modules.py:135-145  the loop's inp (one-element sequence)
    out,               \* modules.py:136-148  the loop's out (emitted symbols)
    calls              \* modules.py:138-144  every test_model(...) call, in order

pre_vars == <<pre_pc, letters, word_vectors_dict, filtered, words_file, chars_file>>
mod_vars == <<mod_pc, module, ctor_args, fwd>>
gen_vars == <<gen_pc, dataset, hid, inp, out, calls>>
vars == <<pre_vars, mod_vars, gen_vars>>

(***************************************************************************)
(* Bounds                                                                  *)
(***************************************************************************)
MaxLen == 3     \* longest letters string
MaxSteps == 4   \* most test_model calls in one modelled episode

(***************************************************************************)
(* Characters                                                              *)
(***************************************************************************)
\* The characters a letters string is drawn from: two regex metacharacters
\* and three letters.
Chars == {"-", "^", "a", "b", "c"}

\* ord(c)
Code == [c \in Chars |-> CASE c = "-" -> 45 [] c = "^" -> 94 [] c = "a" -> 97
                           [] c = "b" -> 98 [] c = "c" -> 99]

RECURSIVE StringsUpTo(_)
StringsUpTo(n) ==
    IF n = 0 THEN {<<>>}
    ELSE LET S == StringsUpTo(n - 1)
         IN  S \cup {Append(s, c) : s \in {t \in S : Len(t) = n - 1}, c \in Chars}

\* The words of the hand-built dictionaries.
WordPool == {<<>>, <<"a">>, <<"b">>, <<"a", "b">>, <<"-">>, <<"^">>}

\* The vector stored with a word (one value per word, all different).
GloveVec(w) == <<"vec", w>>

GloveDicts == {[w \in S |-> GloveVec(w)] : S \in SUBSET WordPool}

(***************************************************************************)
(* Python builtins used by preprocess_data.py                              *)
(***************************************************************************)
\* set(list(s))
set(s) == {s[i] : i \in DOMAIN s}

\* list(S): the elements of a set in some order
RECURSIVE list(_)
list(S) == IF S = {} THEN <<>>
           ELSE LET x == CHOOSE y \in S : TRUE IN <<x>> \o list(S \ {x})

\* sorted(seq) for a sequence of characters: ascending by code point
RECURSIVE insert(_, _)
insert(s, c) ==
    IF s = <<>> THEN <<c>>
    ELSE IF Code[c] < Code[Head(s)] THEN <<c>> \o s
    ELSE <<Head(s)>> \o insert(Tail(s), c)

RECURSIVE sorted(_)
sorted(s) == IF s = <<>> THEN <<>>
             ELSE insert(sorted(SubSeq(s, 1, Len(s) - 1)), s[Len(s)])

\* u < v for Python strings (lexicographic by code point)
RECURSIVE str_lt(_, _)
str_lt(u, v) ==
    IF v = <<>> THEN FALSE
    ELSE IF u = <<>> THEN TRUE
    ELSE IF Code[Head(u)] # Code[Head(v)] THEN Code[Head(u)] < Code[Head(v)]
    ELSE str_lt(Tail(u), Tail(v))

\* sorted(list(d.keys())) for a set of distinct words
RECURSIVE sorted_words(_)
sorted_words(S) ==
    IF S = {} THEN <<>>
    ELSE LET m == CHOOSE x \in S : \A y \in S : y = x \/ str_lt(x, y)
         IN  <<m>> \o sorted_words(S \ {m})

\* range(n)
range(n) == [i \in 1..n |-> i - 1]

\* dict(zip(keys, values)): a later pair overrides an earlier one with the
\* same key; zip stops at the shorter sequence.
dict_zip(keys, values) ==
    LET n == IF Len(keys) < Len(values) THEN Len(keys) ELSE Len(values)
        last(k) == CHOOSE i \in 1..n :
                       keys[i] = k /\ \A j \in 1..n : keys[j] = k => j <= i
    IN  [k \in {keys[i] : i \in 1..n} |-> values[last(k)]]

(***************************************************************************)
(* re.match(r'^[' + letters + r']+$', word)                                *)
(***************************************************************************)
\* The pattern text after the opening "^[".
pattern_tail(ls) == ls \o <<"]", "+", "$">>

\* ord of a pattern character ("]" "+" "$" only occur as literals of a set
\* that is never closed, so their codes are never compared with a word's).
pat_code(c) == IF c \in Chars THEN Code[c] ELSE 0

\* sre_parse's character-set loop, from position i of the tail with the
\* items parsed so far.  Returns the position after the closing "]".
RECURSIVE parse_set(_, _, _)
parse_set(src, i, items) ==
    IF i > Len(src) THEN [err |-> TRUE, items |-> items, next |-> i]
    ELSE IF src[i] = "]" /\ items # <<>>
         THEN [err |-> FALSE, items |-> items, next |-> i + 1]
    ELSE IF i + 1 <= Len(src) /\ src[i + 1] = "-"
         THEN IF i + 2 > Len(src)
                  THEN [err |-> TRUE, items |-> items, next |-> i]
              ELSE IF src[i + 2] = "]"
                  THEN [err |-> FALSE,
                        items |-> items \o <<[lo |-> pat_code(src[i]), hi |-> pat_code(src[i])],
                                             [lo |-> Code["-"], hi |-> Code["-"]]>>,
                        next |-> i + 3]
              ELSE IF pat_code(src[i + 2]) < pat_code(src[i])
                  THEN [err |-> TRUE, items |-> items, next |-> i]
              ELSE parse_set(src, i + 3,
                       Append(items, [lo |-> pat_code(src[i]), hi |-> pat_code(src[i + 2])]))
    ELSE parse_set(src, i + 1,
             Append(items, [lo |-> pat_code(src[i]), hi |-> pat_code(src[i])]))

\* re.compile of the pattern: the set, whether it is negated, or an error.
compile(ls) ==
    LET src == pattern_tail(ls)
        negate == src[1] = "^"
        p == parse_set(src, IF negate THEN 2 ELSE 1, <<>>)
    IN  [err |-> p.err \/ p.next # Len(src) - 1,
         negate |-> negate,
         items |-> p.items]

\* whether one character is in the compiled set
in_set(re, c) ==
    LET hit == \E k \in DOMAIN re.items :
                   re.items[k].lo <= Code[c] /\ Code[c] <= re.items[k].hi
    IN  IF re.negate THEN ~hit ELSE hit

\* re.match(pattern, word) is not None, for a pattern that compiled
re_match(re, word) ==
    /\ Len(word) >= 1
    /\ \A i \in DOMAIN word : in_set(re, word[i])

(***************************************************************************)
(* src/preprocess_data.py                                                  *)
(***************************************************************************)
\* sorting without removing the duplicates
remove_duplicate_chars_sort_only(ls) == sorted(ls)

\* remove_duplicate_chars: ''.join(sorted(list(set(list(letters)))))
remove_duplicate_chars(ls) == sorted(list(set(ls)))

\* The keys filter_words keeps, given the compiled pattern.
kept_words(d, re) == {w \in DOMAIN d : re_match(re, w)}

\* filter_words: the pattern is compiled at the first dictionary entry, so an
\* invalid pattern raises only when the dictionary is not empty.
filter_words(d, ls) ==
    LET re == compile(ls)
    IN  IF DOMAIN d # {} /\ re.err
        THEN [err |-> TRUE, out |-> [w \in {} |-> <<>>]]
        ELSE [err |-> FALSE,
              out |-> [w \in (IF DOMAIN d = {} THEN {} ELSE kept_words(d, re)) |-> d[w]]]

NoFile == [saved |-> FALSE]

\* pickle_word_vecs: what it saves, or the error it raises.
pickle_word_vecs(d, ls0) ==
    LET ls == remove_duplicate_chars(ls0)
        f == filter_words(d, ls)
        words == sorted_words(DOMAIN f.out)
        word_count == Len(words)
    IN  IF f.err
        THEN [err |-> "re.error", filtered |-> f, words_file |-> NoFile, chars_file |-> NoFile]
        ELSE IF word_count = 0
        THEN [err |-> "IndexError", filtered |-> f, words_file |-> NoFile, chars_file |-> NoFile]
        ELSE [err |-> "",
              filtered |-> f,
              words_file |-> [saved |-> TRUE,
                              word2idx |-> dict_zip(words, range(word_count)),
                              idx2word |-> [i \in 0..(word_count - 1) |-> words[i + 1]],
                              word_vecs |-> [i \in 0..(word_count - 1) |-> f.out[words[i + 1]]]],
              chars_file |-> [saved |-> TRUE,
                              char2idx |-> dict_zip(ls, range(Len(ls))),
                              idx2char |-> dict_zip(range(Len(ls)), ls)]]

(***************************************************************************)
(* Preprocessing run: one letters string and one dictionary, then either   *)
(* a direct filter_words call or the whole pickle_word_vecs.               *)
(***************************************************************************)
NoFiltered == [err |-> FALSE, out |-> [w \in {} |-> <<>>]]

\* filter_words(word_vectors_dict, letters) called directly
FilterWords ==
    /\ pre_pc = "start"
    /\ filtered' = filter_words(word_vectors_dict, letters)
    /\ pre_pc' = IF filtered'.err THEN "error" ELSE "filtered"
    /\ UNCHANGED <<letters, word_vectors_dict, words_file, chars_file>>
    /\ UNCHANGED <<mod_vars, gen_vars>>

\* pickle_word_vecs(output_path, word_vectors_dict, letters)
PickleWordVecs ==
    /\ pre_pc = "start"
    /\ LET r == pickle_word_vecs(word_vectors_dict, letters)
       IN  /\ filtered' = r.filtered
           /\ words_file' = r.words_file
           /\ chars_file' = r.chars_file
           /\ pre_pc' = IF r.err = "" THEN "pickled" ELSE "error"
    /\ UNCHANGED <<letters, word_vectors_dict>>
    /\ UNCHANGED <<mod_vars, gen_vars>>

(***************************************************************************)
(* Tensors.  A value is a tensor (its shape and the operations that        *)
(* produced its contents, in order), a Python tuple of values, or None.    *)
(***************************************************************************)
Tensor(shape, data) == [kind |-> "tensor", shape |-> shape, data |-> data, items |-> <<>>]
Tuple(a, b) == [kind |-> "tuple", shape |-> <<>>, data |-> <<>>, items |-> <<a, b>>]
None == [kind |-> "none", shape |-> <<>>, data |-> <<>>, items |-> <<>>]

Ok(v) == [err |-> FALSE, val |-> v]
Raise == [err |-> TRUE, val |-> None]

RECURSIVE numel(_)
numel(shape) == IF shape = <<>> THEN 1 ELSE Head(shape) * numel(Tail(shape))

\* nn.Linear(in_features, out_features)(x)
Linear(in_features, out_features, x) ==
    IF x.kind # "tensor" \/ Len(x.shape) = 0 THEN Raise
    ELSE IF x.shape[Len(x.shape)] # in_features THEN Raise
    ELSE Ok(Tensor(SubSeq(x.shape, 1, Len(x.shape) - 1) \o <<out_features>>,
                   Append(x.data, "Linear")))

\* nn.ReLU / nn.Sigmoid / nn.Tanh (x): elementwise
Activation(cls, x) == Ok(Tensor(x.shape, Append(x.data, cls)))

\* nn.BatchNorm1d(num_features)(x)
BatchNorm1d(num_features, training, x) ==
    IF ~(Len(x.shape) \in {2, 3}) THEN Raise
    ELSE IF x.shape[2] # num_features THEN Raise
    ELSE IF training /\ numel(x.shape) = num_features THEN Raise
    ELSE Ok(Tensor(x.shape, Append(x.data, "BatchNorm1d")))

\* x.unsqueeze(0)
unsqueeze0(x) == Tensor(<<1>> \o x.shape, x.data)

(***************************************************************************)
(* src/modules.py                                                          *)
(***************************************************************************)
ACTS == [name \in {"relu", "sigmoid", "tanh"} |->
            CASE name = "relu" -> "ReLU" [] name = "sigmoid" -> "Sigmoid"
              [] name = "tanh" -> "Tanh"]

\* ACTS[name] with a fallback instead of the KeyError
acts_lookup_default(name) ==
    IF name \in DOMAIN ACTS THEN [err |-> FALSE, cls |-> ACTS[name]]
    ELSE [err |-> FALSE, cls |-> "ReLU"]

\* ACTS[embedding_to_hidden_activation]: a KeyError for a name not in ACTS
acts_lookup(name) ==
    IF name \in DOMAIN ACTS THEN [err |-> FALSE, cls |-> ACTS[name]]
    ELSE [err |-> TRUE, cls |-> ""]

NoModule == [mode |-> "", hidden_size |-> 0, input_embedding_size |-> 0,
             act |-> "", training |-> FALSE]

\* CharDecoderHeadRNN.__init__
CharDecoderHeadRNN_init(mode, hidden_size, input_embedding_size, activation) ==
    LET a == acts_lookup(activation)
    IN  IF a.err THEN [err |-> TRUE, self |-> NoModule]
        ELSE [err |-> FALSE,
              self |-> [mode |-> mode, hidden_size |-> hidden_size,
                        input_embedding_size |-> input_embedding_size,
                        act |-> a.cls, training |-> TRUE]]

\* self.embedding_to_hidden(hidden): the nn.Sequential of lines 81-85
embedding_to_hidden(self, hidden) ==
    LET l == Linear(self.input_embedding_size, self.hidden_size, hidden)
    IN  IF l.err THEN Raise
        ELSE LET a == Activation(self.act, l.val)
                 b == BatchNorm1d(self.hidden_size, self.training, a.val)
             IN  b

\* forward that ignores use_head and always runs the head
head_always(self, hidden, use_head) ==
    LET e == embedding_to_hidden(self, hidden)
    IN  IF e.err THEN [err |-> TRUE, head_ran |-> TRUE, hidden |-> None]
        ELSE [err |-> FALSE, head_ran |-> TRUE,
              hidden |-> IF self.mode = "LSTM"
                         THEN Tuple(unsqueeze0(e.val), unsqueeze0(e.val))
                         ELSE unsqueeze0(e.val)]

\* forward that never builds the pair
head_single(self, hidden, use_head) ==
    IF use_head
    THEN LET e == embedding_to_hidden(self, hidden)
         IN  IF e.err THEN [err |-> TRUE, head_ran |-> TRUE, hidden |-> None]
             ELSE [err |-> FALSE, head_ran |-> TRUE, hidden |-> unsqueeze0(e.val)]
    ELSE [err |-> FALSE, head_ran |-> FALSE, hidden |-> hidden]

\* CharDecoderHeadRNN.forward, lines 90-93: the hidden handed to self.decoder
head(self, hidden, use_head) ==
    IF use_head
    THEN LET e == embedding_to_hidden(self, hidden)
         IN  IF e.err THEN [err |-> TRUE, head_ran |-> TRUE, hidden |-> None]
             ELSE [err |-> FALSE, head_ran |-> TRUE,
                   hidden |-> IF self.mode = "LSTM"
                              THEN Tuple(unsqueeze0(e.val), unsqueeze0(e.val))
                              ELSE unsqueeze0(e.val)]
    ELSE [err |-> FALSE, head_ran |-> FALSE, hidden |-> hidden]

\* CharDecoderRNN.forward: the hidden state self.rnn returns.  The cell is a
\* deterministic function of the state and the input it is given.
decoder(hidden, packed_input) ==
    LET step(t, name) == Tensor(t.shape, t.data \o <<name, ToString(packed_input[1])>>)
    IN  IF hidden.kind = "tuple"
        THEN Tuple(step(hidden.items[1], "rnn.h"), step(hidden.items[2], "rnn.c"))
        ELSE step(hidden, "rnn.h")

NoCall == [called |-> FALSE, hidden |-> None, packed_input |-> <<>>, use_head |-> FALSE,
           err |-> FALSE, head_ran |-> FALSE, dec_called |-> FALSE,
           dec_hidden |-> None, ret_hid |-> None]

\* CharDecoderHeadRNN.forward(hidden, packed_input, use_head) as a call record
forward(self, hidden, packed_input, use_head) ==
    LET h == head(self, hidden, use_head)
    IN  [called |-> TRUE, hidden |-> hidden, packed_input |-> packed_input,
         use_head |-> use_head, err |-> h.err, head_ran |-> h.head_ran,
         dec_called |-> ~h.err, dec_hidden |-> h.hidden,
         ret_hid |-> IF h.err THEN None ELSE decoder(h.hidden, packed_input)]

(***************************************************************************)
(* Construction and forward calls of one CharDecoderHeadRNN                *)
(***************************************************************************)
Modes == {"GRU", "LSTM", "RNN_TANH"}
ActNames == {"relu", "sigmoid", "tanh", "elu", ""}
Sizes == {2, 3}

HiddenArgs ==
    LET two == {Tensor(<<n, e>>, <<"x">>) : n \in {1, 2}, e \in Sizes}
        three == {Tensor(<<1, n, h>>, <<"h0">>) : n \in {1, 2}, h \in Sizes}
    IN  two \cup three \cup {Tuple(t, Tensor(t.shape, <<"c0">>)) : t \in three}

Construct(mode, hidden_size, input_embedding_size, activation) ==
    /\ mod_pc = "new"
    /\ LET r == CharDecoderHeadRNN_init(mode, hidden_size, input_embedding_size, activation)
       IN  /\ module' = r.self
           /\ mod_pc' = IF r.err THEN "failed" ELSE "built"
    /\ ctor_args' = [mode |-> mode, hidden_size |-> hidden_size,
                     input_embedding_size |-> input_embedding_size,
                     embedding_to_hidden_activation |-> activation]
    /\ UNCHANGED fwd
    /\ UNCHANGED <<pre_vars, gen_vars>>

\* test_model.eval()
Eval ==
    /\ mod_pc = "built"
    /\ module.training
    /\ module' = [module EXCEPT !.training = FALSE]
    /\ UNCHANGED <<mod_pc, ctor_args, fwd>>
    /\ UNCHANGED <<pre_vars, gen_vars>>

ForwardCall(hidden, packed_input, use_head) ==
    /\ mod_pc = "built"
    /\ fwd' = forward(module, hidden, packed_input, use_head)
    /\ UNCHANGED <<mod_pc, module, ctor_args>>
    /\ UNCHANGED <<pre_vars, gen_vars>>

(***************************************************************************)
(* The generation episode of src/modules.py lines 129-149                  *)
(***************************************************************************)
\* dataset.idx2char as loaded by the demo: the symbol of index i is table[i + 1].
DatasetTables == {<<"START", "END", "a", "b">>, <<"a", "END", "b", "START">>}

idx2char(table, idx) == table[idx + 1]
char2idx(table, sym) == (CHOOSE i \in DOMAIN table : table[i] = sym) - 1
char_count(table) == Len(table)

\* the module of the demo after test_model.eval()
DemoModule(mode) ==
    [CharDecoderHeadRNN_init(mode, 3, 2, "relu").self EXCEPT !.training = FALSE]

\* hid = batch['embeddings'][0,C].unsqueeze(0)
DemoEmbedding == Tensor(<<1, 2>>, <<"embedding">>)

\* line 138: the arguments of the first test_model call
first_call(h, i) == [hidden |-> h, packed_input |-> i, use_head |-> TRUE]

\* the loop's call with the head left on
loop_call_with_head(h, i) == [hidden |-> h, packed_input |-> i, use_head |-> TRUE]

\* line 143: the arguments of the loop's test_model call
loop_call(h, i) == [hidden |-> h, packed_input |-> i, use_head |-> FALSE]

\* line 141: out += dataset.idx2char[next_idx.item()]
first_append(o, sym) == Append(o, sym)

\* a loop body that appends before it tests for END
loop_body_append_first(o, sym) ==
    [brk |-> sym = "END", out |-> Append(o, sym)]

\* a loop body that also stops once three symbols are out
loop_body_capped(o, sym) ==
    IF sym = "END" \/ Len(o) >= 2 THEN [brk |-> TRUE, out |-> o]
    ELSE [brk |-> FALSE, out |-> Append(o, sym)]

\* lines 146-148: break on END, else append
loop_body(o, sym) ==
    IF sym = "END" THEN [brk |-> TRUE, out |-> o]
    ELSE [brk |-> FALSE, out |-> Append(o, sym)]

\* one entry of the call log: the call, and the arg-max of the scores it returned
Logged(c, next_idx) ==
    [use_head |-> c.use_head, hidden |-> c.hidden, packed_input |-> c.packed_input,
     err |-> c.err, head_ran |-> c.head_ran, dec_hidden |-> c.dec_hidden,
     ret_hid |-> c.ret_hid, next_idx |-> next_idx]

\* lines 138-141
FirstStep(next_idx) ==
    /\ gen_pc = "INIT"
    /\ LET a == first_call(hid, inp)
           c == forward(module, a.hidden, a.packed_input, a.use_head)
       IN  /\ calls' = Append(calls, Logged(c, next_idx))
           /\ IF c.err
              THEN gen_pc' = "ERROR" /\ UNCHANGED <<hid, inp, out>>
              ELSE /\ hid' = c.ret_hid
                   /\ inp' = <<next_idx>>
                   /\ out' = first_append(out, idx2char(dataset, next_idx))
                   /\ gen_pc' = "STEPPING"
    /\ UNCHANGED dataset
    /\ UNCHANGED <<pre_vars, mod_vars>>

\* lines 142-148, one iteration
LoopStep(next_idx) ==
    /\ gen_pc = "STEPPING"
    /\ Len(calls) < MaxSteps
    /\ LET a == loop_call(hid, inp)
           c == forward(module, a.hidden, a.packed_input, a.use_head)
           b == loop_body(out, idx2char(dataset, next_idx))
       IN  /\ calls' = Append(calls, Logged(c, next_idx))
           /\ IF c.err
              THEN gen_pc' = "ERROR" /\ UNCHANGED <<hid, inp, out>>
              ELSE /\ hid' = c.ret_hid
                   /\ inp' = <<next_idx>>
                   /\ out' = b.out
                   /\ gen_pc' = IF b.brk THEN "DONE" ELSE "STEPPING"
    /\ UNCHANGED dataset
    /\ UNCHANGED <<pre_vars, mod_vars>>

(***************************************************************************)
(* Specifications                                                          *)
(***************************************************************************)
PreIdle ==
    /\ pre_pc = "idle" /\ letters = <<>> /\ word_vectors_dict = <<>>
    /\ filtered = NoFiltered /\ words_file = NoFile /\ chars_file = NoFile

ModIdle ==
    /\ mod_pc = "idle" /\ module = NoModule /\ ctor_args = <<>> /\ fwd = NoCall

GenIdle ==
    /\ gen_pc = "idle" /\ dataset = <<>> /\ hid = None /\ inp = <<>>
    /\ out = <<>> /\ calls = <<>>

InitPre ==
    /\ pre_pc = "start"
    /\ letters \in StringsUpTo(MaxLen)
    /\ word_vectors_dict \in GloveDicts
    /\ filtered = NoFiltered /\ words_file = NoFile /\ chars_file = NoFile
    /\ ModIdle /\ GenIdle

NextPre == FilterWords \/ PickleWordVecs

SpecPre == InitPre /\ [][NextPre]_vars

InitFwd ==
    /\ mod_pc = "new" /\ module = NoModule /\ ctor_args = <<>> /\ fwd = NoCall
    /\ PreIdle /\ GenIdle

NextFwd ==
    \/ \E mode \in Modes, hs \in Sizes, es \in Sizes, act \in ActNames :
           Construct(mode, hs, es, act)
    \/ Eval
    \/ \E h \in HiddenArgs, i \in {0, 1}, use_head \in BOOLEAN :
           ForwardCall(h, <<i>>, use_head)

SpecFwd == InitFwd /\ [][NextFwd]_vars

\* lines 129-136: the state when the first call is about to be made
InitGen ==
    /\ gen_pc = "INIT"
    /\ dataset \in DatasetTables
    /\ hid = DemoEmbedding
    /\ inp = <<char2idx(dataset, "START")>>
    /\ out = <<>>
    /\ calls = <<>>
    /\ mod_pc = "built"
    /\ \E mode \in {"GRU", "LSTM"} : module = DemoModule(mode)
    /\ ctor_args = <<>> /\ fwd = NoCall
    /\ PreIdle

NextGen ==
    \/ \E next_idx \in 0..(char_count(dataset) - 1) : FirstStep(next_idx)
    \/ \E next_idx \in 0..(char_count(dataset) - 1) : LoopStep(next_idx)

SpecGen == InitGen /\ [][NextGen]_vars

(***************************************************************************)
(* Properties                                                              *)
(***************************************************************************)
\* the symbol emitted (arg-max) by the i-th call of the episode
emitted(i) == idx2char(dataset, calls[i].next_idx)

\* C1 (as the spec states it): when the arg-max of step 1 is END, generation
\* is DONE after that one step with the empty output.  The loop of lines
\* 138-148 tests for END only from the second step on, so this fails.
C1_EndAtStepOneStopsEmpty ==
    (Len(calls) >= 1 /\ emitted(1) = "END")
        => (gen_pc = "DONE" /\ out = <<>> /\ Len(calls) = 1)

\* C2: if the arg-max is a non-END symbol at steps 1..k (k >= 1) and END at
\* step k+1, generation is DONE right after step k+1 and the output is
\* exactly the k symbols in emission order; and a DONE episode whose first
\* symbol was not END has that form.
C2_GreedyOutput ==
    LET n == Len(calls)
        firstEnd == /\ n >= 2
                    /\ \A i \in 1..(n - 1) : emitted(i) # "END"
                    /\ emitted(n) = "END"
    IN  /\ firstEnd => /\ gen_pc = "DONE"
                       /\ out = [i \in 1..(n - 1) |-> emitted(i)]
        /\ (gen_pc = "DONE" /\ emitted(1) # "END") => firstEnd

C2_Witness ==
    /\ gen_pc = "DONE"
    /\ out = <<"a", "a", "a">>
    /\ Len(calls) = 4

\* the value the head produces from a tensor x of the module: the affine map,
\* the configured nonlinearity and the batch normalisation applied in that
\* order, the last dimension now hidden_size, and a leading dimension of 1
IsHeadOf(t, x) ==
    /\ t.kind = "tensor"
    /\ x.kind = "tensor"
    /\ t.data = x.data \o <<"Linear", module.act, "BatchNorm1d">>
    /\ t.shape = <<1>> \o SubSeq(x.shape, 1, Len(x.shape) - 1) \o <<module.hidden_size>>

\* C3: with use_head = False the decoder is called with the caller's hidden
\* unchanged (no head, no pair built), whatever the mode; with use_head = True
\* the decoder is never called with the caller's argument, only with a
\* head-transformed state.
C3_UseHeadFlag ==
    fwd.called =>
        /\ ~fwd.use_head => /\ fwd.dec_called
                            /\ ~fwd.head_ran
                            /\ fwd.dec_hidden = fwd.hidden
        /\ (fwd.use_head /\ fwd.dec_called) =>
               /\ fwd.head_ran
               /\ fwd.dec_hidden # fwd.hidden
               /\ \/ IsHeadOf(fwd.dec_hidden, fwd.hidden)
                  \/ /\ fwd.dec_hidden.kind = "tuple"
                     /\ fwd.dec_hidden.items[1] # fwd.hidden
                     /\ IsHeadOf(fwd.dec_hidden.items[1], fwd.hidden)

C3_Witness ==
    /\ fwd.called /\ ~fwd.use_head
    /\ module.mode = "LSTM"
    /\ fwd.hidden.kind = "tensor"
    /\ fwd.dec_called

\* C4: after the head ran, the decoder's hidden is a pair of the same
\* head-transformed value when the mode is 'LSTM', and that single value for
\* every other mode.
C4_KindFollowsMode ==
    (fwd.called /\ fwd.use_head /\ fwd.dec_called) =>
        IF module.mode = "LSTM"
        THEN /\ fwd.dec_hidden.kind = "tuple"
             /\ Len(fwd.dec_hidden.items) = 2
             /\ fwd.dec_hidden.items[1] = fwd.dec_hidden.items[2]
             /\ IsHeadOf(fwd.dec_hidden.items[1], fwd.hidden)
        ELSE IsHeadOf(fwd.dec_hidden, fwd.hidden)

C4_Witness ==
    /\ fwd.called /\ fwd.use_head /\ fwd.dec_called
    /\ module.mode = "LSTM"

\* C5: a constructor call with an embedding_to_hidden_activation outside
\* relu/sigmoid/tanh raises: no module exists afterwards and no forward call
\* has run.
C5_UnsupportedActivationFails ==
    (mod_pc # "new"
       /\ ~(ctor_args.embedding_to_hidden_activation \in {"relu", "sigmoid", "tanh"}))
        => /\ mod_pc = "failed"
           /\ module = NoModule
           /\ ~fwd.called

C5_Witness ==
    /\ mod_pc = "failed"
    /\ ctor_args.embedding_to_hidden_activation = "elu"

\* the entries the docstring of filter_words promises: the non-empty words
\* all of whose characters occur in letters
OnlyLetters(d, ls) ==
    {w \in DOMAIN d : Len(w) >= 1 /\ \A i \in DOMAIN w : w[i] \in set(ls)}

\* C6 (as the spec states it): filter_words returns exactly the entries whose
\* word is non-empty and made only of characters of letters, each with its
\* vector.  letters is pasted unescaped into a regex character set, so "-"
\* and "^" in it change the set, and this fails.
C6_FilterKeepsExactlyLetterWords ==
    pre_pc = "filtered" =>
        /\ DOMAIN filtered.out = OnlyLetters(word_vectors_dict, letters)
        /\ \A w \in DOMAIN filtered.out : filtered.out[w] = word_vectors_dict[w]

\* C7: the saved char table covers exactly the distinct characters of
\* letters in sorted order: char2idx maps the i-th smallest to i, idx2char is
\* its inverse, and the indices are 0..n-1 for n distinct characters.
C7_CharTable ==
    pre_pc = "pickled" =>
        LET S == set(letters)
            n == Cardinality(S)
            c2i == chars_file.char2idx
            i2c == chars_file.idx2char
        IN  /\ DOMAIN c2i = S
            /\ DOMAIN i2c = 0..(n - 1)
            /\ \A c \in S : /\ c2i[c] = Cardinality({d \in S : Code[d] < Code[c]})
                            /\ i2c[c2i[c]] = c
            /\ \A i \in 0..(n - 1) : c2i[i2c[i]] = i

C7_Witness ==
    /\ pre_pc = "pickled"
    /\ Cardinality(set(letters)) = 2
    /\ Len(letters) = 3
    /\ letters[1] = "b"

C9_HeadOnceThenThreaded ==
    /\ Len(calls) >= 1 =>
           /\ calls[1].use_head /\ calls[1].head_ran
           /\ calls[1].packed_input = <<char2idx(dataset, "START")>>
           /\ Cardinality({i \in DOMAIN calls : calls[i].head_ran}) = 1
    /\ \A i \in 2..Len(calls) :
           /\ ~calls[i].use_head
           /\ calls[i].hidden = calls[i - 1].ret_hid
           /\ calls[i].dec_hidden = calls[i - 1].ret_hid
           /\ calls[i].packed_input = <<calls[i - 1].next_idx>>

C9_Witness ==
    /\ Len(calls) >= 3
    /\ calls[2].next_idx # calls[1].next_idx
    /\ gen_pc = "STEPPING"

\* C10: DONE is reached only by a step that emitted END; while no step has
\* emitted END the episode is still STEPPING, however many steps ran, and
\* the output holds one symbol per step.
C10_OnlyEndStops ==
    LET n == Len(calls)
    IN  /\ gen_pc = "DONE" => (n >= 2 /\ emitted(n) = "END")
        /\ (n >= 1 /\ \A i \in 1..n : emitted(i) # "END")
               => /\ gen_pc = "STEPPING"
                  /\ Len(out) = n
                  /\ \A i \in 1..n : out[i] = emitted(i)

C10_Witness ==
    /\ Len(calls) = 4
    /\ \A i \in 1..4 : emitted(i) # "END"
    /\ gen_pc = "STEPPING"

====
